---- MODULE Spec2Model ----
\* Model of the ScaleFT audit-event modular input (bin/app/sft-audit-events.js,
\* version 1.0.5): the ScaleftInput object, its checkpoint file, and the
\* pollEvents loop of streamEvents.
EXTENDS Integers, Sequences, FiniteSets

\* ---------------------------------------------------------------- bounds

\* Audit events of the remote log carry timestamps 1..MaxTs (abstract instants).
MaxTs == 2

\* Longest page the audit endpoint returns in one response.
MaxPage == 2

\* Number of poll cycles one behaviour may start after its first: each begins
\* with the polling timer firing or with the host starting the input again.
MaxCycles == 2

\* The configured polling_interval, in seconds (validateInput wants >= 30).
PollingInterval == 1800

\* Largest instant saved and loaded again in the checkpoint round trips.
MaxInstant == 120

\* Most tokens in an actor string given to formatActor.
MaxTokens == 2

\* ------------------------------------------------------------ JS values

\* The values lastIndexTime and loadCheckpoint's result range over.
Num(n) == [type |-> "number", value |-> n]

DateOf(t) == [type |-> "Date", value |-> t]

Null == [type |-> "null", value |-> 0]

False == [type |-> "boolean", value |-> 0]

\* JavaScript truthiness of such a value: a Date object is always truthy,
\* the number 0, null and false are falsy.
Truthy(v) == v.type = "Date" \/ (v.type = "number" /\ v.value # 0)

\* Only Date objects have a getTime method; calling it on the number 0 or
\* on null throws a TypeError.
HasGetTime(v) == v.type = "Date"

\* ------------------------------------------------- the checkpoint file

Absent == <<"ENOENT">>

NaN == -1

Digits == <<"0", "1", "2", "3", "4", "5", "6", "7", "8", "9">>

IsDigit(c) == \E d \in 1..10 : Digits[d] = c

DigitValue(c) == (CHOOSE d \in 1..10 : Digits[d] = c) - 1

\* Number.prototype.toString: the decimal digits of a non-negative integer.
RECURSIVE toString(_)
toString(n) == IF n < 10 THEN <<Digits[n + 1]>>
               ELSE toString(n \div 10) \o <<Digits[(n % 10) + 1]>>

\* parseInt(text, 10): the value of the longest prefix of decimal digits,
\* NaN when the text does not start with a digit.
RECURSIVE ParseDigits(_, _)
ParseDigits(text, acc) ==
    IF text = <<>> \/ ~IsDigit(Head(text)) THEN acc
    ELSE ParseDigits(Tail(text), acc * 10 + DigitValue(Head(text)))

ParseInt(text) == IF text = <<>> \/ ~IsDigit(Head(text)) THEN NaN
                  ELSE ParseDigits(text, 0)

\* A date-time string naming the instant t, as Date.prototype.toISOString
\* writes it; modelled as the letter D followed by the instant's digits.
DateString(t) == <<"D">> \o toString(t)

\* new Date(<file contents>).getTime(): the contents are parsed as a date-time
\* string. The instants of the model stand for epoch-millisecond values of
\* thirteen digits; such a digit string is not a date-time string and gives an
\* Invalid Date (NaN), and so does any other text.
DateParse(text) ==
    IF Len(text) >= 2 /\ Head(text) = "D" /\ \A i \in 2..Len(text) : IsDigit(text[i])
    THEN ParseDigits(Tail(text), 0)
    ELSE NaN

\* ---------------------------------------------------------------- events

Events == {[id |-> i, timestamp |-> i] : i \in 1..MaxTs}

Ids == {e.id : e \in Events}

\* Pages the audit endpoint can answer with under descending=1: sequences of
\* distinct events, newest first.
RECURSIVE SeqsUpTo(_, _)
SeqsUpTo(S, n) ==
    IF n = 0 THEN {<<>>}
    ELSE LET shorter == SeqsUpTo(S, n - 1)
         IN  shorter \cup {Append(p, e) : p \in {q \in shorter : Len(q) = n - 1}, e \in S}

Descending(p) == \A i \in 1..Len(p) - 1 : p[i].timestamp > p[i + 1].timestamp

Pages == {p \in SeqsUpTo(Events, MaxPage) : Descending(p)}

\* results.getEvents: body.list of the audits response, undefined when the body
\* has no list.
Undefined == [isArray |-> FALSE, list |-> <<>>]

Array(page) == [isArray |-> TRUE, list |-> page]

VARIABLES
    token,            \* ScaleftInput.token
    tokenExpiration,  \* ScaleftInput.tokenExpiration
    lastIndexTime,    \* ScaleftInput.lastIndexTime
    file,             \* contents of the file at getCheckpointPath()
    now,              \* Date.now()
    pc,               \* what the event loop is waiting for
    evts,             \* results.getEvents of the latest cycle
    emitted,          \* writeEvent calls of the latest emitToSplunk, in order
    sink,             \* per event id, how many writeEvent calls succeeded
    handed,           \* event ids writeEvent was ever called for
    uncaught,         \* the exception that ended the process, if any
    saveFailed,       \* whether a writeFileSync of saveCheckpoint ever threw
    cycles,           \* poll cycles started after the first one
    timers,           \* setTimeout(pollEvents) timers that have not fired yet
    actor,            \* an actor string, the argument of a formatActor call
    formatted,        \* what that formatActor call returned, {} before it
    inputs,           \* the ScaleftInput objects of the configured inputs
    store,            \* the files of the checkpoint directory, by path
    rawEv,            \* a raw audit event, the argument of a formatEvent call
    data              \* what that formatEvent call returned, <<>> before it

vars == <<token, tokenExpiration, lastIndexTime, file, now, pc, evts, emitted,
          sink, handed, uncaught, saveFailed, cycles, timers, actor, formatted,
          inputs, store, rawEv, data>>

\* -------------------------------------------------------- actor strings

\* Strings are sequences of one-character strings.
team == <<"t", "e", "a", "m">>

user == <<"u", "s", "e", "r">>

instance == <<"i", "n", "s", "t", "a", "n", "c", "e">>

device == <<"d", "e", "v", "i", "c", "e">>

deviceType == <<"d", "e", "v", "i", "c", "e", " ", "t", "y", "p", "e">>

\* parts[1] of a token that has no '='.
NoValue == <<"undefined">>

\* String.prototype.split with a one-character separator: the pieces between
\* the separators, empty pieces included.
RECURSIVE split(_, _)
split(s, sep) ==
    IF \A i \in 1..Len(s) : s[i] # sep THEN <<s>>
    ELSE LET i == CHOOSE k \in 1..Len(s) : s[k] = sep /\ \A q \in 1..(k - 1) : s[q] # sep
         IN  <<SubSeq(s, 1, i - 1)>> \o split(SubSeq(s, i + 1, Len(s)), sep)

\* String.prototype.toUpperCase on the letters that occur in type codes.
toUpperCase(s) ==
    [i \in 1..Len(s) |->
       CASE s[i] = "t" -> "T"
         [] s[i] = "u" -> "U"
         [] s[i] = "i" -> "I"
         [] s[i] = "d" -> "D"
         [] s[i] = "q" -> "Q"
         [] OTHER -> s[i]]

\* getActorType: the readable name of a type code, the code itself by default.
getActorType(actorType) ==
    LET code == toUpperCase(actorType)
    IN  CASE code = <<"T">> -> team
          [] code = <<"U">> -> user
          [] code = <<"I">> -> instance
          [] code = <<"D">> -> device
          [] code = <<"D", "T">> -> deviceType
          [] OTHER -> actorType

\* The reduce of formatActor: for each token, split it at every '=' and assign
\* actorParts[1] to the property named by getActorType(actorParts[0]).
RECURSIVE reduce(_, _)
reduce(actorSplit, result) ==
    IF actorSplit = <<>> THEN result
    ELSE LET actorParts == split(Head(actorSplit), "=")
             key == getActorType(actorParts[1])
             value == IF Len(actorParts) >= 2 THEN actorParts[2] ELSE NoValue
         IN  reduce(Tail(actorSplit),
                    {e \in result : e.key # key} \cup {[key |-> key, value |-> value]})

\* formatActor(actorString): the object as the set of its properties.
formatActor(actorString) == reduce(split(actorString, " "), {})

\* Type codes and values of the actor strings given to formatActor.
Codes == {<<"T">>, <<"U">>, <<"I">>, <<"D">>, <<"D", "T">>, <<"u">>, <<"d", "t">>, <<"Q">>}

Values == {<<"a">>, <<"b">>, <<"a", "=", "b">>}

Tokens == {c \o <<"=">> \o v : c \in Codes, v \in Values}

RECURSIVE ActorsOf(_)
ActorsOf(n) == IF n = 1 THEN Tokens
               ELSE {a \o <<" ">> \o t : a \in ActorsOf(n - 1), t \in Tokens}

ActorStrings == UNION {ActorsOf(n) : n \in 1..MaxTokens}

\* ------------------------------------------------------------ raw events

\* Keys a details mapping may have.
DetailKeys == {"actor", "type", "id", "timestamp"}

\* What a key of details may hold: an actor string under actor, other text
\* under the other keys.
DetailValues(detail) == IF detail = "actor" THEN Tokens ELSE {<<"x">>, <<"y">>}

Details ==
    UNION {{d \in [keys -> UNION {DetailValues(k) : k \in keys}] :
              \A k \in keys : d[k] \in DetailValues(k)} : keys \in SUBSET DetailKeys}

RawEvents == {[id |-> <<"e">>, timestamp |-> <<"1">>, details |-> d] : d \in Details}

\* The forEach of formatEvent over Object.keys(ev.details): ret[detail] is
\* assigned formatActor's object for actor and the value itself otherwise.
RECURSIVE forEachDetail(_, _, _)
forEachDetail(details, keys, ret) ==
    IF keys = {} THEN ret
    ELSE LET detail == CHOOSE k \in keys : TRUE
             assigned == IF detail = "actor" THEN formatActor(details[detail])
                         ELSE details[detail]
         IN  forEachDetail(details, keys \ {detail},
                           [k \in DOMAIN ret \cup {detail} |->
                              IF k = detail THEN assigned ELSE ret[k]])

\* formatEvent(ev): ret starts as {id, timestamp} and takes every key of details.
formatEvent(event) ==
    forEachDetail(event.details, DOMAIN event.details,
                  [k \in {"id", "timestamp"} |->
                     IF k = "id" THEN event.id ELSE event.timestamp])

\* ---------------------------------------------------- configured inputs

INPUT_NAME == "sft-audit-events"

\* The checkpoint_dir Splunk gives every input of this kind.
CheckPointDir == "checkpoint_dir"

Https == <<"h", "t", "t", "p", "s", ":", "/", "/">>

\* team_name values an administrator may enter.
TeamNames == {<<"a">>, <<"b">>, <<"a", "-", "b">>}

\* instance_address values an administrator may enter.
InstanceAddresses ==
    {Https \o <<"c">>, Https \o <<"c", "/">>, Https \o <<"b", "-", "c">>,
     <<"b", "-">> \o Https \o <<"c">>, <<"c">>}

\* teamNameRegex, /^[\w\-_.]+$/, on the characters that occur here.
teamNameRegex(teamName) ==
    /\ teamName # <<>>
    /\ \A i \in 1..Len(teamName) :
         teamName[i] \in {"a", "b", "c", "h", "p", "s", "t", "-", "_", "."}

\* url.parse(instanceAddr).protocol: the text up to the first colon, with it.
protocol(instanceAddr) ==
    IF \A i \in 1..Len(instanceAddr) : instanceAddr[i] # ":" THEN <<>>
    ELSE Head(split(instanceAddr, ":")) \o <<":">>

\* url.parse(instanceAddr).hostname: what stands between the two slashes
\* after the protocol and the next slash.
hostname(instanceAddr) ==
    LET rest == SubSeq(instanceAddr, Len(protocol(instanceAddr)) + 1, Len(instanceAddr))
    IN  IF Len(rest) >= 2 /\ rest[1] = "/" /\ rest[2] = "/"
        THEN Head(split(SubSeq(rest, 3, Len(rest)), "/"))
        ELSE <<>>

\* Before 1.0.5 the scheme had useExternalValidation = false: Splunk accepted
\* every configuration.
validateInputUnused(teamName, instanceAddr) == TRUE

\* validateInput, which Splunk calls before it accepts a configuration
\* (useExternalValidation): its tests of team_name and instance_address.
validateInput(teamName, instanceAddr) ==
    /\ teamNameRegex(teamName)
    /\ hostname(instanceAddr) # <<>>
    /\ protocol(instanceAddr) = <<"h", "t", "t", "p", "s", ":">>

Configurations ==
    {c \in TeamNames \X InstanceAddresses : validateInput(c[1], c[2])}

\* new ScaleftInput(teamName, instanceAddress, ...): a trailing slash of the
\* address is cut off.
ScaleftInput(teamName, instanceAddress) ==
    [teamName |-> teamName,
     instanceAddr |-> IF instanceAddress # <<>> /\ instanceAddress[Len(instanceAddress)] = "/"
                      THEN SubSeq(instanceAddress, 1, Len(instanceAddress) - 1)
                      ELSE instanceAddress,
     lastIndexTime |-> Num(0)]

\* util.format('%s-%s', teamName, instanceAddr).
format(teamName, instanceAddr) == teamName \o <<"-">> \o instanceAddr

\* The SHA-1 hex digest of a text, named by the text it digests: two texts have
\* the same digest only if they are the same text.
digest(text) == [sha1 |-> text]

\* getCheckpointPath(): path.join(checkPointDir, INPUT_NAME, digest).
getCheckpointPath(input) ==
    <<CheckPointDir, INPUT_NAME, digest(format(input.teamName, input.instanceAddr))>>

\* ------------------------------------------------------------ operations

\* The lifetime the version before 1.0.5 gave a token: ten hours.
HourMsBefore105 == 60 * 600 * 1000

\* The token's validity window, 60 * 60 * 1000 ms.
HourMs == 60 * 60 * 1000

\* saveCheckpoint(timestamp): writeFileSync(path, timestamp.toString()).
saveCheckpoint(timestamp) == toString(timestamp)

\* A loadCheckpoint without the parseInt fallback: only date-time strings load.
loadCheckpointDateOnly(contents) ==
    IF contents = Absent THEN False
    ELSE LET ts == DateParse(contents)
         IN  IF ts = NaN THEN False ELSE DateOf(ts)

\* A loadCheckpoint without the isNaN(parsed) test: the fallback's result is
\* made a Date whatever parseInt gave.
loadCheckpointUnchecked(contents) ==
    IF contents = Absent THEN False
    ELSE LET ts == DateParse(contents)
         IN  IF ts = NaN THEN DateOf(ParseInt(contents)) ELSE DateOf(ts)

\* loadCheckpoint(): false when the file cannot be read or holds neither a
\* date-time string nor an integer, else the Date it holds.
loadCheckpoint(contents) ==
    IF contents = Absent THEN False
    ELSE LET ts == DateParse(contents)
         IN  IF ts = NaN
             THEN LET parsed == ParseInt(contents)
                  IN  IF parsed = NaN THEN False ELSE DateOf(parsed)
             ELSE DateOf(ts)

\* The constructor's lastIndexTime, replaced by the checkpoint when it is truthy.
StartIndexTime(contents) ==
    LET checkpoint == loadCheckpoint(contents)
    IN  IF Truthy(checkpoint) THEN checkpoint ELSE Num(0)

\* A fixed-rate loop: pollEvents sets the next timer as it starts, and the
\* final callback sets none.
setTimeoutCallsFixedRate(handler) == IF handler = "pollEvents" THEN 1 ELSE 0

\* How many setTimeout(pollEvents, ...) calls a handler makes: one in the final
\* callback of the cycle's async.auto, none anywhere else.
setTimeoutCalls(handler) == IF handler = "finalCallback" THEN 1 ELSE 0

\* The guard with its comparison turned around.
TokenValidInverted(t, expiration) == t > expiration

\* A guard that also reuses the token at the very instant it expires.
TokenValidAtExpiry(t, expiration) == t <= expiration

\* refreshToken's guard: the token is reused while Date.now() < tokenExpiration.
TokenValid(t, expiration) == t < expiration

\* The filter with < for <=: an event at the watermark itself is let through.
SkippedStrictlyOlder(ev, watermark) == ev.timestamp < watermark.value

\* emitToSplunk's filter: an event at or before the watermark is skipped.
Skipped(ev, watermark) == ev.timestamp <= watermark.value

\* writeEvent without the try/catch: the exception of a failed write leaves the forEach.
RethrownUncaught(id, failing) == id \in failing

\* The catch around writeEvent logs the exception and swallows it: a failed
\* write never leaves the forEach.
Rethrown(id, failing) == FALSE

\* A loop that goes through the page from its end: the oldest event first.
RECURSIVE ForEachOldestFirst(_, _, _)
ForEachOldestFirst(page, watermark, failing) ==
    IF page = <<>> THEN <<>>
    ELSE LET last == page[Len(page)]
         IN  (IF Skipped(last, watermark) THEN <<>>
              ELSE <<[id |-> last.id, ok |-> last.id \notin failing]>>)
             \o ForEachOldestFirst(SubSeq(page, 1, Len(page) - 1), watermark, failing)

\* The forEach of emitToSplunk: the writeEvent calls it makes, in order, each
\* with whether the sink took the event (writeEvent throws for the ids of failing).
RECURSIVE ForEach(_, _, _)
ForEach(page, watermark, failing) ==
    IF page = <<>> THEN <<>>
    ELSE IF Skipped(Head(page), watermark) THEN ForEach(Tail(page), watermark, failing)
         ELSE <<[id |-> Head(page).id, ok |-> Head(page).id \notin failing]>>
              \o (IF Rethrown(Head(page).id, failing) THEN <<>>
                  ELSE ForEach(Tail(page), watermark, failing))

\* An indexTime assigned at every event: the Date of the page's last event.
IndexTimeOfLastEvent(page) == IF page = <<>> THEN Null ELSE DateOf(page[Len(page)].timestamp)

\* indexTime after the forEach: the Date of the first event, null for no event.
IndexTime(page) == IF page = <<>> THEN Null ELSE DateOf(page[1].timestamp)

\* The forEach throws at its first event when lastIndexTime has no getTime.
ForEachThrows(page, watermark) == page # <<>> /\ ~HasGetTime(watermark)

\* Files a previous installation can have left: none, or the last instant it
\* indexed (instant 0, before every event of Events) as epoch-millisecond text
\* or as a date-time string.
InitialFiles == {Absent, toString(0), DateString(0)}

Init ==
    /\ file \in InitialFiles
    /\ token = ""
    /\ tokenExpiration = 0
    /\ lastIndexTime = StartIndexTime(file)
    /\ now = 1
    /\ pc = "refreshing"
    /\ evts = Undefined
    /\ emitted = <<>>
    /\ sink = [i \in Ids |-> 0]
    /\ handed = {}
    /\ uncaught = "none"
    /\ saveFailed = FALSE
    /\ cycles = 0
    /\ timers = setTimeoutCalls("pollEvents")
    /\ actor = <<>>
    /\ formatted = {}
    /\ inputs = <<>>
    /\ store = <<>>
    /\ rawEv = <<>>
    /\ data = <<>>

\* streamEvents, run again by the host after the process ended or was stopped:
\* a new ScaleftInput, loadCheckpoint, and the first pollEvents call, whose
\* refreshToken finds tokenExpiration = 0 and posts the token request.
StreamEvents ==
    /\ UNCHANGED <<actor, formatted, inputs, store, rawEv, data>>
    /\ cycles < MaxCycles
    /\ cycles' = cycles + 1
    /\ token' = ""
    /\ tokenExpiration' = 0
    /\ lastIndexTime' = StartIndexTime(file)
    /\ pc' = "refreshing"
    /\ evts' = Undefined
    /\ emitted' = <<>>
    /\ uncaught' = "none"
    /\ timers' = setTimeoutCalls("pollEvents")
    /\ UNCHANGED <<file, now, sink, handed, saveFailed>>

\* The setTimeout of the previous cycle fires: pollEvents runs getEvents, whose
\* refreshToken either reuses the token (the audits request goes out at once)
\* or posts the token request.
PollEvents ==
    /\ UNCHANGED <<actor, formatted, inputs, store, rawEv, data>>
    /\ timers > 0
    /\ timers' = timers - 1 + setTimeoutCalls("pollEvents")
    /\ cycles < MaxCycles
    /\ cycles' = cycles + 1
    /\ now' = now + PollingInterval * 1000
    /\ pc' = IF TokenValid(now', tokenExpiration) THEN "fetching" ELSE "refreshing"
    /\ evts' = Undefined
    /\ emitted' = <<>>
    /\ UNCHANGED <<token, tokenExpiration, lastIndexTime, file, sink, handed,
                   uncaught, saveFailed>>

\* The token request ends with a transport error: callback(err), the cycle's
\* final callback logs and schedules the next pollEvents.
TokenError ==
    /\ UNCHANGED <<actor, formatted, inputs, store, rawEv, data>>
    /\ pc = "refreshing"
    /\ pc' = "sleeping"
    /\ timers' = timers + setTimeoutCalls("finalCallback")
    /\ UNCHANGED <<token, tokenExpiration, lastIndexTime, file, now, evts,
                   emitted, sink, handed, uncaught, saveFailed, cycles>>

\* The token endpoint answers with a bearer token; the audits request follows.
TokenIssued ==
    /\ UNCHANGED <<actor, formatted, inputs, store, rawEv, data>>
    /\ pc = "refreshing"
    /\ token' = "bearer"
    /\ tokenExpiration' = now + HourMs
    /\ pc' = "fetching"
    /\ UNCHANGED <<lastIndexTime, file, now, evts, emitted, sink, handed,
                   uncaught, saveFailed, cycles, timers>>

\* The token endpoint answers with a non-success response: err is null, the
\* body has no bearer_token, and the code goes on as after a success.
TokenRejected ==
    /\ UNCHANGED <<actor, formatted, inputs, store, rawEv, data>>
    /\ pc = "refreshing"
    /\ token' = "undefined"
    /\ tokenExpiration' = now + HourMs
    /\ pc' = "fetching"
    /\ UNCHANGED <<lastIndexTime, file, now, evts, emitted, sink, handed,
                   uncaught, saveFailed, cycles, timers>>

\* The audits request ends with a transport error.
AuditsError ==
    /\ UNCHANGED <<actor, formatted, inputs, store, rawEv, data>>
    /\ pc = "fetching"
    /\ pc' = "sleeping"
    /\ timers' = timers + setTimeoutCalls("finalCallback")
    /\ UNCHANGED <<token, tokenExpiration, lastIndexTime, file, now, evts,
                   emitted, sink, handed, uncaught, saveFailed, cycles>>

\* The audits endpoint answers with a body that has no list (an error body, a
\* malformed body, or list: null): emitToSplunk returns at its !evts guard.
AuditsNoList ==
    /\ UNCHANGED <<actor, formatted, inputs, store, rawEv, data>>
    /\ pc = "fetching"
    /\ evts' = Undefined
    /\ pc' = "sleeping"
    /\ timers' = timers + setTimeoutCalls("finalCallback")
    /\ UNCHANGED <<token, tokenExpiration, lastIndexTime, file, now, emitted,
                   sink, handed, uncaught, saveFailed, cycles>>

\* emitToSplunk on a list: writeEvent for every event that passes the filter
\* (it throws for the events of failing, which is caught), then the watermark
\* becomes indexTime and is saved (writeFileSync throws unless saveOk); the
\* final callback then sets the timer of the next pollEvents.
emitToSplunk(page, failing, saveOk) ==
    /\ evts' = Array(page)
    /\ IF ForEachThrows(page, lastIndexTime)
       THEN /\ uncaught' = "TypeError"
            /\ pc' = "crashed"
            /\ emitted' = <<>>
            /\ UNCHANGED <<lastIndexTime, file, sink, handed, saveFailed, timers>>
       ELSE LET calls == ForEach(page, lastIndexTime, failing)
                indexTime == IndexTime(page)
            IN  /\ emitted' = calls
                /\ sink' = [i \in Ids |->
                              IF \E k \in 1..Len(calls) : calls[k].id = i /\ calls[k].ok
                              THEN sink[i] + 1 ELSE sink[i]]
                /\ handed' = handed \cup {calls[k].id : k \in 1..Len(calls)}
                /\ lastIndexTime' = indexTime
                /\ IF ~HasGetTime(indexTime)
                   THEN /\ uncaught' = "TypeError"
                        /\ pc' = "crashed"
                        /\ UNCHANGED <<file, saveFailed, timers>>
                   ELSE IF ~saveOk
                   THEN /\ uncaught' = "WriteError"
                        /\ pc' = "crashed"
                        /\ saveFailed' = TRUE
                        /\ UNCHANGED <<file, timers>>
                   ELSE /\ file' = saveCheckpoint(indexTime.value)
                        /\ pc' = "sleeping"
                        /\ timers' = timers + setTimeoutCalls("finalCallback")
                        /\ UNCHANGED <<uncaught, saveFailed>>

\* The audits endpoint answers a request that carried a bearer token with a list.
AuditsList ==
    /\ UNCHANGED <<actor, formatted, inputs, store, rawEv, data>>
    /\ pc = "fetching"
    /\ token = "bearer"
    /\ \E page \in Pages, saveOk \in BOOLEAN :
         \E failing \in SUBSET {page[k].id : k \in 1..Len(page)} :
            emitToSplunk(page, failing, saveOk)
    /\ UNCHANGED <<token, tokenExpiration, now, cycles>>

Next ==
    \/ StreamEvents
    \/ PollEvents
    \/ TokenError
    \/ TokenIssued
    \/ TokenRejected
    \/ AuditsError
    \/ AuditsNoList
    \/ AuditsList

Spec == Init /\ [][Next]_vars

\* ------------------------------------------- the checkpoint file on its own

\* Contents that are neither a date-time string nor start with a digit: an
\* empty file and files of other text.
Unparsable == {<<>>, <<"x">>, <<"x", "1">>, <<"D">>, <<"D", "x">>, <<"N", "a", "N">>}

\* An input that has just been constructed, with no checkpoint file yet.
CheckpointInit ==
    /\ file = Absent
    /\ token = ""
    /\ tokenExpiration = 0
    /\ lastIndexTime = Num(0)
    /\ now = 1
    /\ pc = "refreshing"
    /\ evts = Undefined
    /\ emitted = <<>>
    /\ sink = [i \in Ids |-> 0]
    /\ handed = {}
    /\ uncaught = "none"
    /\ saveFailed = FALSE
    /\ cycles = 0
    /\ timers = setTimeoutCalls("pollEvents")
    /\ actor = <<>>
    /\ formatted = {}
    /\ inputs = <<>>
    /\ store = <<>>
    /\ rawEv = <<>>
    /\ data = <<>>

\* The end of emitToSplunk in a cycle whose page began at the instant x: the
\* watermark becomes that Date and saveCheckpoint writes its getTime().
SaveStep ==
    /\ UNCHANGED <<actor, formatted, inputs, store, rawEv, data>>
    /\ \E x \in 0..MaxInstant :
         /\ lastIndexTime' = DateOf(x)
         /\ file' = saveCheckpoint(lastIndexTime'.value)
    /\ pc' = "sleeping"
    /\ timers' = setTimeoutCalls("finalCallback")
    /\ UNCHANGED <<token, tokenExpiration, now, evts, emitted, sink, handed,
                   uncaught, saveFailed, cycles>>

\* The file as a writer of date-time strings left it for the watermark x, the
\* other encoding loadCheckpoint reads.
DateStringStep ==
    /\ UNCHANGED <<actor, formatted, inputs, store, rawEv, data>>
    /\ \E x \in 0..MaxInstant :
         /\ lastIndexTime' = DateOf(x)
         /\ file' = DateString(x)
    /\ pc' = "sleeping"
    /\ timers' = setTimeoutCalls("finalCallback")
    /\ UNCHANGED <<token, tokenExpiration, now, evts, emitted, sink, handed,
                   uncaught, saveFailed, cycles>>

\* The file is removed, made unreadable or overwritten with other text while
\* the input sleeps.
DamageStep ==
    /\ UNCHANGED <<actor, formatted, inputs, store, rawEv, data>>
    /\ pc = "sleeping"
    /\ file' \in {Absent} \cup Unparsable
    /\ UNCHANGED <<token, tokenExpiration, lastIndexTime, now, pc, evts, emitted,
                   sink, handed, uncaught, saveFailed, cycles, timers>>

\* streamEvents of a new process: a new ScaleftInput, whose lastIndexTime is
\* replaced by loadCheckpoint()'s result when that is truthy.
LoadStep ==
    /\ UNCHANGED <<actor, formatted, inputs, store, rawEv, data>>
    /\ pc = "sleeping"
    /\ lastIndexTime' = StartIndexTime(file)
    /\ pc' = "refreshing"
    /\ timers' = setTimeoutCalls("pollEvents")
    /\ UNCHANGED <<token, tokenExpiration, file, now, evts, emitted, sink, handed,
                   uncaught, saveFailed, cycles>>

CheckpointNext ==
    \/ SaveStep
    \/ DateStringStep
    \/ DamageStep
    \/ LoadStep

CheckpointSpec == CheckpointInit /\ [][CheckpointNext]_vars

\* ------------------------------------------------ formatActor on its own

\* An event whose details.actor is one of ActorStrings is about to be formatted.
ActorInit ==
    /\ actor \in ActorStrings
    /\ formatted = {}
    /\ inputs = <<>>
    /\ store = <<>>
    /\ rawEv = <<>>
    /\ data = <<>>
    /\ file = Absent
    /\ token = ""
    /\ tokenExpiration = 0
    /\ lastIndexTime = Num(0)
    /\ now = 1
    /\ pc = "fetching"
    /\ evts = Undefined
    /\ emitted = <<>>
    /\ sink = [i \in Ids |-> 0]
    /\ handed = {}
    /\ uncaught = "none"
    /\ saveFailed = FALSE
    /\ cycles = 0
    /\ timers = 0

\* formatEvent calls formatActor on details.actor.
FormatActorStep ==
    /\ formatted = {}
    /\ formatted' = formatActor(actor)
    /\ UNCHANGED <<token, tokenExpiration, lastIndexTime, file, now, pc, evts,
                   emitted, sink, handed, uncaught, saveFailed, cycles, timers, actor,
                   inputs, store, rawEv, data>>

ActorNext == FormatActorStep

ActorSpec == ActorInit /\ [][ActorNext]_vars

\* --------------------------------------------- two inputs, one directory

\* Two inputs that Splunk accepted have been constructed; no checkpoint has
\* been written yet.
InputsInit ==
    /\ inputs \in {<<ScaleftInput(c[1], c[2]), ScaleftInput(d[1], d[2])>> :
                     c \in Configurations, d \in Configurations}
    /\ store = [p \in {getCheckpointPath(inputs[i]) : i \in 1..2} |-> Absent]
    /\ actor = <<>>
    /\ formatted = {}
    /\ rawEv = <<>>
    /\ data = <<>>
    /\ file = Absent
    /\ token = ""
    /\ tokenExpiration = 0
    /\ lastIndexTime = Num(0)
    /\ now = 1
    /\ pc = "sleeping"
    /\ evts = Undefined
    /\ emitted = <<>>
    /\ sink = [i \in Ids |-> 0]
    /\ handed = {}
    /\ uncaught = "none"
    /\ saveFailed = FALSE
    /\ cycles = 0
    /\ timers = 0

\* Input i ends a cycle on a page that begins at the instant x: its watermark
\* becomes that Date and saveCheckpoint writes the file at its path.
InputSaves(i) ==
    /\ \E x \in 1..MaxTs :
         /\ inputs' = [inputs EXCEPT ![i].lastIndexTime = DateOf(x)]
         /\ store' = [store EXCEPT ![getCheckpointPath(inputs[i])] = saveCheckpoint(x)]
    /\ UNCHANGED <<token, tokenExpiration, lastIndexTime, file, now, pc, evts,
                   emitted, sink, handed, uncaught, saveFailed, cycles, timers,
                   actor, formatted, rawEv, data>>

\* Input i is started again: streamEvents constructs it anew and loads the
\* file at its path.
InputLoads(i) ==
    /\ inputs' = [inputs EXCEPT ![i].lastIndexTime =
                                   StartIndexTime(store[getCheckpointPath(inputs[i])])]
    /\ UNCHANGED <<token, tokenExpiration, lastIndexTime, file, now, pc, evts,
                   emitted, sink, handed, uncaught, saveFailed, cycles, timers,
                   actor, formatted, rawEv, data, store>>

InputsNext ==
    \/ \E i \in 1..2 : InputSaves(i)
    \/ \E i \in 1..2 : InputLoads(i)

InputsSpec == InputsInit /\ [][InputsNext]_vars

\* ------------------------------------------------ formatEvent on its own

\* An event of a fetched page has passed the filter and is about to be formatted.
FormatInit ==
    /\ rawEv \in RawEvents
    /\ data = <<>>
    /\ inputs = <<>>
    /\ store = <<>>
    /\ actor = <<>>
    /\ formatted = {}
    /\ file = Absent
    /\ token = ""
    /\ tokenExpiration = 0
    /\ lastIndexTime = Num(0)
    /\ now = 1
    /\ pc = "fetching"
    /\ evts = Undefined
    /\ emitted = <<>>
    /\ sink = [i \in Ids |-> 0]
    /\ handed = {}
    /\ uncaught = "none"
    /\ saveFailed = FALSE
    /\ cycles = 0
    /\ timers = 0

\* emitToSplunk builds the Event whose data is formatEvent(ev).
FormatEventStep ==
    /\ DOMAIN data = {}
    /\ data' = formatEvent(rawEv)
    /\ UNCHANGED <<token, tokenExpiration, lastIndexTime, file, now, pc, evts,
                   emitted, sink, handed, uncaught, saveFailed, cycles, timers,
                   actor, formatted, inputs, store, rawEv>>

FormatNext == FormatEventStep

FormatSpec == FormatInit /\ [][FormatNext]_vars

\* ------------------------------------------------------------ step kinds

\* The audits response carried a list and emitToSplunk ran on it.
ListStep == pc = "fetching" /\ cycles' = cycles /\ evts'.isArray

\* The token request failed: a transport error or a non-success response.
AuthFailureStep == TokenError \/ TokenRejected

\* The audits request failed: a transport error or a body without a list.
FetchFailureStep == AuditsError \/ AuditsNoList

IdsOf(calls) == {calls[k].id : k \in 1..Len(calls)}

\* ---------------------------------------------------------------- claims

\* C1: a cycle that starts with a set watermark, gets a non-empty page and runs
\* to its end (the save included) never keeps in memory, nor persists, a
\* watermark earlier than the one it started with.
C1_WatermarkNeverRewound ==
    [][(ListStep /\ HasGetTime(lastIndexTime) /\ evts'.list # <<>> /\ pc' = "sleeping")
         => /\ lastIndexTime'.value >= lastIndexTime.value
            /\ loadCheckpoint(file').value >= loadCheckpoint(file).value]_vars

\* C2: a cycle whose fetch returns an empty list leaves the in-memory watermark
\* and the checkpoint file as they were and emits nothing.
C2_EmptyListChangesNothing ==
    [][(ListStep /\ evts'.list = <<>>)
         => /\ lastIndexTime' = lastIndexTime
            /\ file' = file
            /\ emitted' = <<>>
            /\ sink' = sink]_vars

\* C3: on a first-ever run (no checkpoint, watermark unset) a non-empty page is
\* written to the sink whole and the watermark, in memory and persisted, becomes
\* the page's first timestamp.
C3_FirstRunEmitsWholePage ==
    [][(ListStep /\ lastIndexTime = Num(0) /\ evts'.list # <<>>)
         => /\ Len(emitted') = Len(evts'.list)
            /\ \A k \in 1..Len(evts'.list) : evts'.list[k].id \in IdsOf(emitted')
            /\ lastIndexTime' = DateOf(evts'.list[1].timestamp)
            /\ (saveFailed' = saveFailed => loadCheckpoint(file') = DateOf(evts'.list[1].timestamp))]_vars

\* C4: in a cycle that starts with a set watermark W, writeEvent is called for an
\* event of the page if and only if its timestamp is strictly greater than W.
C4_WrittenIffNewerThanWatermark ==
    [][(ListStep /\ HasGetTime(lastIndexTime))
         => \A k \in 1..Len(evts'.list) :
              (evts'.list[k].id \in IdsOf(emitted')) <=> (evts'.list[k].timestamp > lastIndexTime.value)]_vars

\* C4 witness: a cycle ended in which one event of a two-event page was written
\* and the other, at or before the watermark, was not.
C4_Witness ==
    /\ pc = "sleeping"
    /\ evts.isArray
    /\ Len(evts.list) = 2
    /\ Len(emitted) = 1
    /\ emitted[1].id = evts.list[1].id

\* C5: as long as every saveCheckpoint succeeded, no event has been written to
\* the sink more than once.
C5_NoEventWrittenTwice ==
    ~saveFailed => \A i \in Ids : sink[i] <= 1

\* C6: every event of a fetched page has had writeEvent called for it by the end
\* of that cycle (in that cycle or an earlier one).
C6_NoEventLost ==
    [][ListStep => \A k \in 1..Len(evts'.list) : evts'.list[k].id \in handed']_vars

\* C7: a cycle that starts with a set watermark and gets a non-empty page ends
\* with the next pollEvents scheduled, whether or not a sink write or the
\* checkpoint save failed in it.
C7_NextCycleScheduled ==
    [][(ListStep /\ HasGetTime(lastIndexTime) /\ evts'.list # <<>>) => pc' = "sleeping"]_vars

\* C8: in a cycle in which a writeEvent call failed, writeEvent was still called
\* for every event of the page newer than the watermark, the in-memory watermark
\* became the page's first timestamp, and the checkpoint was written with it
\* unless the write of the checkpoint itself failed.
C8_SinkFailureDoesNotAbort ==
    [][(ListStep /\ \E j \in 1..Len(emitted') : ~emitted'[j].ok)
         => /\ \A k \in 1..Len(evts'.list) :
                 evts'.list[k].timestamp > lastIndexTime.value => evts'.list[k].id \in IdsOf(emitted')
            /\ lastIndexTime' = DateOf(evts'.list[1].timestamp)
            /\ \/ file' = toString(evts'.list[1].timestamp) /\ pc' = "sleeping"
               \/ uncaught' = "WriteError"]_vars

\* C8 witness: a cycle ended in which the first write failed, a later write of
\* the same page succeeded, and the checkpoint holds the page's first timestamp.
C8_Witness ==
    /\ pc = "sleeping"
    /\ Len(emitted) = 2
    /\ ~emitted[1].ok
    /\ emitted[2].ok
    /\ lastIndexTime = DateOf(evts.list[1].timestamp)
    /\ loadCheckpoint(file) = lastIndexTime

\* C9: a failed token request or a failed fetch writes nothing to the sink and
\* leaves the watermark and the checkpoint alone, and after a failed token
\* request no audits request goes out.
C9_FailedCycleChangesNothing ==
    [][(AuthFailureStep \/ FetchFailureStep)
         => /\ sink' = sink /\ handed' = handed
            /\ lastIndexTime' = lastIndexTime /\ file' = file
            /\ (AuthFailureStep => pc' # "fetching")]_vars

\* C10: a failed token request (transport error or non-success response) leaves
\* token and tokenExpiration unchanged and ends the cycle without a fetch.
C10_FailedRefreshKeepsCredential ==
    [][AuthFailureStep
         => /\ token' = token
            /\ tokenExpiration' = tokenExpiration
            /\ pc' = "sleeping"]_vars

\* C11: whenever an audits request is outstanding, the tokenExpiration of the
\* token it presented is strictly later than the current time, and the token is
\* not the constructor's empty one.
C11_PresentedTokenNotExpired ==
    pc = "fetching" => (now < tokenExpiration /\ token # "")

\* C11 witness: an audits request is outstanding in a later cycle that reused
\* the bearer token issued in an earlier one.
C11_Witness ==
    /\ pc = "fetching"
    /\ token = "bearer"
    /\ now > 1
    /\ tokenExpiration < now + HourMs

\* C12: a pollEvents whose refreshToken runs while the clock is before
\* tokenExpiration posts no token request (the audits request goes out at once)
\* and leaves token and tokenExpiration as they were, so the one token request
\* that issued the token serves both cycles.
C12_ValidTokenReused ==
    [][(PollEvents /\ now' < tokenExpiration)
         => /\ pc' = "fetching"
            /\ token' = token
            /\ tokenExpiration' = tokenExpiration]_vars

\* C12 witness: a later cycle fetched a list with the bearer token that an
\* earlier cycle had obtained, within its hour.
C12_Witness ==
    /\ pc = "sleeping"
    /\ evts.isArray
    /\ token = "bearer"
    /\ now > 1
    /\ now < tokenExpiration
    /\ tokenExpiration < now + HourMs

\* C13: the token response that delivers a bearer token sets tokenExpiration to
\* the time of that refresh plus exactly 3,600,000 ms, so the token is reused
\* for no longer than one hour after it was issued.
C13_ExpirationOneHourAfterRefresh ==
    [][TokenIssued => tokenExpiration' = now' + 3600000]_vars

\* C13 witness: a token was issued by a refresh later than the start of the
\* run, and its expiration is that refresh's time plus one hour.
C13_Witness ==
    /\ token = "bearer"
    /\ now > 1
    /\ tokenExpiration = now + 3600000

\* C14: a cycle that fetches a page whose first timestamp is the watermark it
\* starts with (the state a completed cycle on that same page leaves behind)
\* calls writeEvent for no event, not even the newest one, and leaves the
\* watermark at the same value.
C14_SamePageWritesNothing ==
    [][(ListStep /\ evts'.list # <<>> /\ lastIndexTime = DateOf(evts'.list[1].timestamp))
         => /\ emitted' = <<>>
            /\ sink' = sink
            /\ lastIndexTime' = lastIndexTime]_vars

\* C14 witness: a cycle ended that wrote nothing although its page is not
\* empty; the newest event of the page had been written once, by an earlier
\* cycle, and the watermark is still that event's timestamp.
C14_Witness ==
    /\ pc = "sleeping"
    /\ evts.isArray
    /\ evts.list # <<>>
    /\ emitted = <<>>
    /\ sink[evts.list[1].id] = 1
    /\ lastIndexTime = DateOf(evts.list[1].timestamp)

C16_LoadCheckpointFailsSoft ==
    [][(LoadStep /\ (file = Absent \/ (DateParse(file) = NaN /\ ParseInt(file) = NaN)))
         => /\ loadCheckpoint(file) = False
            /\ lastIndexTime' = Num(0)
            /\ uncaught' = "none"
            /\ pc' = "refreshing"]_vars

\* C16 witness: a process started while the file held unparsable text, and it
\* is at its first token request with the watermark unset.
C16_Witness ==
    /\ pc = "refreshing"
    /\ file \in Unparsable
    /\ lastIndexTime = Num(0)

\* C18: a pollEvents timer is pending only while no request or handler of a
\* cycle is outstanding, and never more than one: the next cycle can start only
\* after the previous one ran to its final callback, its writes and its save
\* done or the cycle failed.
C18_OneCycleInFlight ==
    /\ timers <= 1
    /\ (timers = 1 => pc = "sleeping")

\* C18 witness: the timer fired and the second cycle is under way, with no
\* timer pending, after a first one that wrote an event and saved the
\* checkpoint.
C18_Witness ==
    /\ pc = "fetching"
    /\ cycles = 1
    /\ now > 1
    /\ timers = 0
    /\ \E i \in Ids : sink[i] = 1
    /\ loadCheckpoint(file) = lastIndexTime

\* C19: a cycle on a non-empty page whose saveCheckpoint fails leaves the
\* in-memory watermark at the page's first timestamp and ends with the timer of
\* the next pollEvents set, which will filter against that watermark.
C19_SaveFailureLoopContinues ==
    [][(ListStep /\ evts'.list # <<>> /\ uncaught' = "WriteError")
         => /\ lastIndexTime' = DateOf(evts'.list[1].timestamp)
            /\ pc' = "sleeping"
            /\ timers' = 1]_vars

\* C20: whenever the timer of the next pollEvents is pending after a cycle that
\* fetched a non-empty page (its save succeeded, or the loop would have ended),
\* the checkpoint file loads as the in-memory watermark and both are the
\* timestamp of the page's first event, however many events were written.
C20_CheckpointIsNewestOfPage ==
    (timers = 1 /\ pc = "sleeping" /\ evts.isArray /\ evts.list # <<>>)
      => /\ lastIndexTime = DateOf(evts.list[1].timestamp)
         /\ file = saveCheckpoint(evts.list[1].timestamp)
         /\ loadCheckpoint(file) = lastIndexTime

\* C20 witness: the loop sleeps after a cycle on a two-event page of which only
\* the first event was newer than the watermark; file and watermark hold that
\* first event's timestamp.
C20_Witness ==
    /\ timers = 1
    /\ Len(evts.list) = 2
    /\ Len(emitted) = 1
    /\ file = toString(evts.list[1].timestamp)
    /\ lastIndexTime = DateOf(evts.list[1].timestamp)

\* C17: the object formatActor returns has, for every token CODE=value of the
\* actor string, a property whose name is CODE's name in the table (matched in
\* any letter case, CODE itself when it is not in the table), and the value of
\* that property is the value (what follows the first '=') of the last token
\* with that name; it has no other property.
C17_ActorDecoded ==
    formatted # {} =>
      LET tokens == split(actor, " ")
          eq(t) == CHOOSE k \in 1..Len(t) : t[k] = "=" /\ \A q \in 1..(k - 1) : t[q] # "="
          codeOf(t) == SubSeq(t, 1, eq(t) - 1)
          valueOf(t) == SubSeq(t, eq(t) + 1, Len(t))
          table == [c \in {<<"T">>, <<"U">>, <<"I">>, <<"D">>, <<"D", "T">>} |->
                      CASE c = <<"T">> -> team
                        [] c = <<"U">> -> user
                        [] c = <<"I">> -> instance
                        [] c = <<"D">> -> device
                        [] OTHER -> deviceType]
          nameOf(t) == IF toUpperCase(codeOf(t)) \in DOMAIN table
                       THEN table[toUpperCase(codeOf(t))]
                       ELSE codeOf(t)
      IN  /\ \A i \in 1..Len(tokens) :
               (\A j \in (i + 1)..Len(tokens) : nameOf(tokens[j]) # nameOf(tokens[i]))
                 => [key |-> nameOf(tokens[i]), value |-> valueOf(tokens[i])] \in formatted
          /\ \A e \in formatted : \E i \in 1..Len(tokens) : nameOf(tokens[i]) = e.key
          /\ \A e, f \in formatted : e.key = f.key => e = f

C22_EmittedInPageOrder ==
    [][ListStep =>
         LET page == evts'.list
             pos(id) == CHOOSE k \in 1..Len(page) : page[k].id = id
         IN  /\ \A j \in 1..Len(emitted') : \E k \in 1..Len(page) : page[k].id = emitted'[j].id
             /\ \A i, j \in 1..Len(emitted') :
                  i < j => pos(emitted'[i].id) < pos(emitted'[j].id)]_vars

\* C22 witness: a cycle wrote both events of a two-event page, the page's first
\* event first.
C22_Witness ==
    /\ pc = "sleeping"
    /\ Len(evts.list) = 2
    /\ Len(emitted) = 2
    /\ emitted[1].id = evts.list[1].id
    /\ emitted[2].id = evts.list[2].id
    /\ emitted[1].ok
    /\ emitted[2].ok

\* C23: for a token whose value itself contains '=', formatActor maps the name
\* of the type code before the first '=' to everything after it (for the one
\* token U=a=b, user to a=b).
C23_SplitOnFirstEqualsOnly ==
    (formatted # {} /\ Len(split(actor, " ")) = 1 /\ Len(split(actor, "=")) > 2)
      => LET first == Len(Head(split(actor, "="))) + 1
         IN  formatted = {[key |-> getActorType(SubSeq(actor, 1, first - 1)),
                           value |-> SubSeq(actor, first + 1, Len(actor))]}

\* C24: whatever keys the details of a raw event has, the record formatEvent
\* returns has the event's id and timestamp, every key of details other than
\* actor with the value details has for it, and an actor property exactly when
\* details has one.
C24_FormatEventPreservesIdentity ==
    DOMAIN data # {} =>
      /\ data["id"] = rawEv.id
      /\ data["timestamp"] = rawEv.timestamp
      /\ \A k \in DOMAIN rawEv.details \ {"actor"} :
           k \in DOMAIN data /\ data[k] = rawEv.details[k]
      /\ ("actor" \in DOMAIN data) <=> ("actor" \in DOMAIN rawEv.details)

====
